---- MODULE Spec2Model ----
(***************************************************************************)
(* A model of age-plugin-yubikey: the 9-byte identity stub encoding        *)
(* (src/yubikey.rs), the stanza parser (src/format.rs), the compressed     *)
(* curve point wrapper (src/p256.rs) and the device connection protocol    *)
(* Stub::connect (src/yubikey.rs).                                         *)
(*                                                                         *)
(* The specifications share the variables below:                           *)
(*   SpecStub    - Stub::to_bytes / Stub::from_bytes on bounded inputs     *)
(*   SpecStanza  - RecipientLine::from_stanza on bounded records           *)
(*   SpecConnect - Stub::connect stepping against a device, a clock and    *)
(*                 the callbacks                                           *)
(*   SpecConnectFair - SpecConnect with every call of connect returning    *)
(*   SpecUnwrap  - Stub::matches and Connection::unwrap_file_key on the    *)
(*                 stanzas of a header, over an established connection     *)
(*   SpecOpen    - yubikey::open while devices are plugged and unplugged   *)
(*   SpecBuild   - IdentityBuilder::build against the slots of a device    *)
(*   SpecSlot    - the --slot option of generate and identity              *)
(* Each one leaves the variables of the others at their idle values.       *)
(***************************************************************************)
EXTENDS Integers, Sequences, FiniteSets, TLC

VARIABLES
    \* ---- stub encoding
    stubPc,      \* "idle" | "encoded" | "raw" | "decoded"
    stubIn,      \* the stub handed to to_bytes (NoStub when the bytes are raw)
    buf,         \* the byte buffer handed to from_bytes
    decoded,     \* what from_bytes returned
    \* ---- stanza parsing
    stzPc,       \* "idle" | "received" | "parsed"
    stanza,      \* the record handed to from_stanza: [tag, args, body]
    parsed,      \* what from_stanza returned
    \* ---- Stub::connect
    pc,          \* position inside connect
    self,        \* the stub being connected
    dev,         \* the device: what its slot holds, its PIN state, when it appears
    now,         \* the clock, in tenths of a second
    start,       \* SystemTime taken when the wait starts (-1 before)
    yubikey,     \* the open device handle held by connect (FALSE/TRUE)
    pk,          \* the Recipient read from the slot (NoRecipient before)
    pin,         \* the PIN the callbacks returned (NoPin before)
    result,      \* what connect returned (NoResult while running)
    log,         \* the calls made on the device and the callbacks, in order
    drift,       \* tenths of a second the polls are behind a cadence of ONE_SECOND
    unwrapped,   \* what the last unwrap_file_key returned
    \* ---- Stub::matches and Connection::unwrap_file_key
    unwraps,     \* the calls of unwrap_file_key so far: [line, ret], in order
    todo,        \* stanzas of the header the plugin may still hand to unwrap_file_key
    matched,     \* the last call of Stub::matches: [line, ret]
    \* ---- yubikey::open
    openPc,      \* position inside open and wait_for_readers
    serialArg,   \* the --serial option: None or Some serial
    plugged,     \* the serials of the devices connected right now
    readersIter, \* the snapshot the last readers.iter() returned
    openNow,     \* the clock, in tenths of a second
    openStart,   \* SystemTime taken by wait_for_readers (-1 before)
    openLog,     \* what open printed and called, in order
    openResult,  \* what open returned (NoResult while running)
    plugEvents,  \* how many times a device was plugged or unplugged
    \* ---- IdentityBuilder::build
    buildPc,     \* position inside build
    builder,     \* the IdentityBuilder: [slot, force]
    keys,        \* the slots Key::list reports a key in
    chosen,      \* the slot build selected (0 before)
    buildLog,    \* the prompts and device calls of build, in order
    buildResult, \* what build returned (NoResult while running)
    \* ---- the --slot option
    slotPc,      \* "idle" | "parsed" | "selected" | "listed"
    slotArg,     \* the --slot option: None or Some u8
    selected     \* what the option was resolved to

stubVars == <<stubPc, stubIn, buf, decoded>>
stanzaVars == <<stzPc, stanza, parsed>>
connectVars ==
    <<pc, self, dev, now, start, yubikey, pk, pin, result, log, drift, unwrapped>>
unwrapVars == <<unwraps, todo, matched>>
openVars ==
    <<openPc, serialArg, plugged, readersIter, openNow, openStart, openLog, openResult,
      plugEvents>>
buildVars == <<buildPc, builder, keys, chosen, buildLog, buildResult>>
slotVars == <<slotPc, slotArg, selected>>
cliVars == <<openVars, buildVars, slotVars>>
vars == <<stubVars, stanzaVars, connectVars, unwrapVars, cliVars>>

(***************************************************************************)
(* Bounds of the model.                                                    *)
(***************************************************************************)
\* identity_index ranges over 0..MaxIndex
MaxIndex == 1
\* raw buffers handed to from_bytes have 0..MaxBufLen bytes
MaxBufLen == 11

(***************************************************************************)
(* Bytes and small helpers.                                                *)
(***************************************************************************)
Take(s, n) == SubSeq(s, 1, IF n < Len(s) THEN n ELSE Len(s))

Max(S) == CHOOSE x \in S : \A y \in S : y <= x

Drop(s, n) == SubSeq(s, n + 1, Len(s))

\* n zero bytes (vec![0; n])
Pad0(n) == [i \in 1..n |-> 0]

\* u32::to_le_bytes
to_le_bytes(n) ==
    << n % 256, (n \div 256) % 256, (n \div 65536) % 256, (n \div 16777216) % 256 >>

\* u32::from_le_bytes
from_le_bytes(b) == b[1] + 256 * b[2] + 65536 * b[3] + 16777216 * b[4]

(***************************************************************************)
(* RetiredSlotId: R1..R20 are 1..20 here; their one-byte codes are         *)
(* 0x82..0x95 (yubikey_piv::key::RetiredSlotId).                           *)
(***************************************************************************)
RetiredSlotIds == 1..20

\* the code of R1 (0x82); Rn has code R1_CODE + n - 1
R1_CODE == 130

\* u8::from(RetiredSlotId), used by to_bytes as self.slot.into()
slot_into(slot) == R1_CODE + slot - 1

\* RetiredSlotId::try_from(u8), used by from_bytes as bytes[4].try_into().ok()
slot_try_from(byte) ==
    IF byte >= R1_CODE /\ byte <= R1_CODE + 19
    THEN [kind |-> "Some", slot |-> byte - R1_CODE + 1]
    ELSE [kind |-> "None"]

(***************************************************************************)
(* Stub (src/yubikey.rs).                                                  *)
(***************************************************************************)
Stub(serial, slot, tag, identity_index) ==
    [serial |-> serial, slot |-> slot, tag |-> tag, identity_index |-> identity_index]

NoStub == [serial |-> -1]

Panic == [kind |-> "Panic"]

None == [kind |-> "None"]

\* Stub::to_bytes: serial (little-endian), slot code, tag
to_bytes(stub) ==
    to_le_bytes(stub.serial) \o << slot_into(stub.slot) >> \o stub.tag

\* impl PartialEq for Stub: the encodings are compared
StubEq(a, b) == to_bytes(a) = to_bytes(b)

\* Stub::from_bytes with the tag slice taken one byte early (bytes[4..8])
from_bytes_tag_off_by_one(bytes, identity_index) ==
    IF Len(bytes) < 5 THEN Panic
    ELSE LET slot == slot_try_from(bytes[5])
         IN  IF slot.kind = "None" THEN None
             ELSE IF Len(bytes) < 9 THEN Panic
             ELSE [kind |-> "Some",
                   stub |-> Stub(from_le_bytes(SubSeq(bytes, 1, 4)), slot.slot,
                                 SubSeq(bytes, 5, 8), identity_index)]

\* Stub::from_bytes: bytes[0..4], bytes[4] and bytes[5..9] are indexed without
\* a length check, so a short buffer panics; trailing bytes are not looked at.
from_bytes(bytes, identity_index) ==
    IF Len(bytes) < 4 THEN Panic
    ELSE IF Len(bytes) < 5 THEN Panic
    ELSE LET serial == from_le_bytes(SubSeq(bytes, 1, 4))
             slot == slot_try_from(bytes[5])
         IN  IF slot.kind = "None" THEN None
             ELSE IF Len(bytes) < 9 THEN Panic
             ELSE [kind |-> "Some",
                   stub |-> Stub(serial, slot.slot, SubSeq(bytes, 6, 9), identity_index)]

(***************************************************************************)
(* base64 (STANDARD_NO_PAD).  A text argument is a sequence of symbols: a  *)
(* symbol 0..63 is the alphabet character of that value, a larger one is a *)
(* character outside the alphabet.                                         *)
(***************************************************************************)
\* base64::encode_config(bytes, STANDARD_NO_PAD)
RECURSIVE base64_encode(_)
base64_encode(bytes) ==
    IF Len(bytes) = 0 THEN <<>>
    ELSE IF Len(bytes) = 1 THEN
        << bytes[1] \div 4, (bytes[1] % 4) * 16 >>
    ELSE IF Len(bytes) = 2 THEN
        << bytes[1] \div 4, (bytes[1] % 4) * 16 + bytes[2] \div 16,
           (bytes[2] % 16) * 4 >>
    ELSE
        << bytes[1] \div 4, (bytes[1] % 4) * 16 + bytes[2] \div 16,
           (bytes[2] % 16) * 4 + bytes[3] \div 64, bytes[3] % 64 >>
        \o base64_encode(Drop(bytes, 3))

Err == [kind |-> "Err"]

\* base64 decoding of a symbol sequence: Err on a character outside the
\* alphabet, on a length of 1 mod 4 and on non-zero trailing bits
RECURSIVE base64_decode(_)
base64_decode(arg) ==
    IF \E i \in 1..Len(arg) : arg[i] > 63 THEN Err
    ELSE IF Len(arg) = 0 THEN [kind |-> "Ok", bytes |-> <<>>]
    ELSE IF Len(arg) = 1 THEN Err
    ELSE IF Len(arg) = 2 THEN
        IF arg[2] % 16 # 0 THEN Err
        ELSE [kind |-> "Ok", bytes |-> << arg[1] * 4 + arg[2] \div 16 >>]
    ELSE IF Len(arg) = 3 THEN
        IF arg[3] % 4 # 0 THEN Err
        ELSE [kind |-> "Ok",
              bytes |-> << arg[1] * 4 + arg[2] \div 16,
                           (arg[2] % 16) * 16 + arg[3] \div 4 >>]
    ELSE LET rest == base64_decode(Drop(arg, 4))
         IN  IF rest.kind = "Err" THEN Err
             ELSE [kind |-> "Ok",
                   bytes |-> << arg[1] * 4 + arg[2] \div 16,
                                (arg[2] % 16) * 16 + arg[3] \div 4,
                                (arg[3] % 4) * 64 + arg[4] >> \o rest.bytes]

(***************************************************************************)
(* Recipient (src/p256.rs): a compressed SEC-1 point, 33 bytes.            *)
(*                                                                         *)
(* The curve is modelled by the multiplicative group modulo GroupP with    *)
(* generator GroupG: a private key is a scalar d, its public point is      *)
(* GroupG^d, and the agreement of d with a point q is q^d.  A point q has  *)
(* the 32-byte coordinates XBytes(q) and YBytes(q).                        *)
(***************************************************************************)
GroupP == 23
GroupG == 5

RECURSIVE PowMod(_, _)
PowMod(b, e) == IF e = 0 THEN 1 ELSE (b * PowMod(b, e - 1)) % GroupP

\* the public point of a private scalar
PointOf(d) == PowMod(GroupG, d)

\* a 32-byte x coordinate built from a point number
XBytes(q) == [i \in 1..32 |-> (q * 7 + i * 3) % 256]

\* the y coordinate: its last byte carries the parity that picks prefix 2 or 3
YBytes(q) == [i \in 1..32 |-> IF i = 32 THEN q ELSE (q * 11 + i) % 256]

\* the x coordinates that lie on the curve (EncodedPoint::decompress is some)
OnCurveXs == { XBytes(q) : q \in 1..(GroupP - 1) }

\* SEC-1 encodings of point q, as the device's certificate may hold them
Uncompressed(q) ==
    [kind |-> "Ok", form |-> "uncompressed", prefix |-> 4,
     x |-> XBytes(q), y |-> YBytes(q)]

Compressed(q) ==
    [kind |-> "Ok", form |-> "compressed", prefix |-> 2 + (q % 2), x |-> XBytes(q)]

Recipient(bytes) == [kind |-> "Some", bytes |-> bytes]

\* Recipient::from_pubkey: a compressed point must decompress; an
\* uncompressed one is compressed (prefix 2 or 3 by the parity of y)
from_pubkey(pubkey) ==
    IF pubkey.form = "compressed" THEN
        IF pubkey.x \in OnCurveXs
        THEN Recipient(<< pubkey.prefix >> \o pubkey.x)
        ELSE None
    ELSE Recipient(<< 2 + (pubkey.y[32] % 2) >> \o pubkey.x)

\* EncodedPoint::from_bytes: the first byte is the SEC-1 tag and fixes the length
EncodedPoint_from_bytes(bytes) ==
    IF Len(bytes) = 0 THEN Err
    ELSE IF bytes[1] \in {2, 3} /\ Len(bytes) = 33 THEN
        [kind |-> "Ok", form |-> "compressed", prefix |-> bytes[1],
         x |-> SubSeq(bytes, 2, 33)]
    ELSE IF bytes[1] = 4 /\ Len(bytes) = 65 THEN
        [kind |-> "Ok", form |-> "uncompressed", prefix |-> 4,
         x |-> SubSeq(bytes, 2, 33), y |-> SubSeq(bytes, 34, 65)]
    ELSE Err

\* Recipient::from_bytes
Recipient_from_bytes(bytes) ==
    LET point == EncodedPoint_from_bytes(bytes)
    IN  IF point.kind = "Err" THEN None ELSE from_pubkey(point)

\* Recipient::as_bytes
as_bytes(recipient) == recipient.bytes

\* Recipient::tag: the first TAG_BYTES bytes of SHA-256 over the bech32 text of
\* the point.  The hash is modelled as a fixed many-to-one function of the
\* encoded bytes: points q and q + 8 of equal parity collide.
Recipient_tag(recipient) ==
    << recipient.bytes[2] % 8, recipient.bytes[33] % 4, recipient.bytes[1], 0 >>

(***************************************************************************)
(* RecipientLine::from_stanza (src/format.rs).                             *)
(***************************************************************************)
STANZA_TAG == "piv-p256"

TAG_BYTES == 4
EPK_BYTES == 33
ENCRYPTED_FILE_KEY_BYTES == 32

\* the nested fn base64_arg: the text length is checked against the buffer
\* length first, then the text is decoded into the buffer
base64_arg(arg, buflen) ==
    IF Len(arg) # (4 * buflen + 2) \div 3 THEN None
    ELSE LET d == base64_decode(arg)
         IN  IF d.kind = "Err" THEN None
             ELSE [kind |-> "Some",
                   bytes |-> d.bytes \o Pad0(buflen - Len(d.bytes))]

\* s.args.get(i): i counts from 0
args_get(args, i) ==
    IF i < Len(args) THEN [kind |-> "Some", arg |-> args[i + 1]] ELSE None

SomeErr == [kind |-> "SomeErr"]

SomeOk(line) == [kind |-> "SomeOk", line |-> line]

\* the match on (tag, epk) that from_stanza evaluates once the tag test has
\* passed.  Inside Some(match ..) the body conversion
\* s.body[..].try_into().ok()? returns None from the whole function.
parse_tagged(s) ==
    LET a0 == args_get(s.args, 0)
        a1 == args_get(s.args, 1)
        tag == IF a0.kind = "None" THEN None ELSE base64_arg(a0.arg, TAG_BYTES)
        raw == IF a1.kind = "None" THEN None ELSE base64_arg(a1.arg, EPK_BYTES)
        epk == IF raw.kind = "None" THEN None ELSE Recipient_from_bytes(raw.bytes)
    IN  IF tag.kind = "Some" /\ epk.kind = "Some" THEN
            IF Len(s.body) = ENCRYPTED_FILE_KEY_BYTES
            THEN SomeOk([tag |-> tag.bytes, epk |-> epk,
                         encrypted_file_key |-> s.body])
            ELSE None
        ELSE SomeErr

\* from_stanza without the tag test at its head
from_stanza_any_tag(s) == parse_tagged(s)

\* RecipientLine::from_stanza
from_stanza(s) ==
    IF s.tag # STANZA_TAG THEN None ELSE parse_tagged(s)

(***************************************************************************)
(* SpecStub: to_bytes and from_bytes applied to bounded inputs.            *)
(***************************************************************************)
\* serials within TLC's integers (0 .. 2^31 - 1); all four bytes vary
SerialSamples == {0, 42, 255, 256, 16909060, 2147483647}

TagSamples == { <<7, 7, 7, 7>>, <<0, 0, 0, 0>>, <<130, 1, 255, 149>> }

\* slot bytes around both ends of the recognized range 0x82..0x95
SlotByteSamples == {0, 129, 130, 140, 149, 150, 255}

\* buffers of every length 0..MaxBufLen: a 9-byte layout cut short or padded
RawBuffers ==
    { Take(to_le_bytes(s) \o <<b>> \o t \o Pad0(MaxBufLen), n) :
        s \in SerialSamples, b \in SlotByteSamples, t \in TagSamples, n \in 0..MaxBufLen }

NoDecoded == [kind |-> "NotYet"]

NoStanza == [tag |-> "", args |-> <<>>, body |-> <<>>]

NoParsed == [kind |-> "NotYet"]

StanzaIdle == stzPc = "idle" /\ stanza = NoStanza /\ parsed = NoParsed

NoRecipient == [kind |-> "NoRecipient"]

NoPin == "no-pin"

NoResult == [kind |-> "NotYet"]

NoDevice == [kind |-> "NoDevice"]

ConnectIdle ==
    /\ pc = "idle" /\ self = NoStub /\ dev = NoDevice /\ now = 0 /\ start = -1
    /\ yubikey = FALSE /\ pk = NoRecipient /\ pin = NoPin /\ result = NoResult
    /\ log = <<>> /\ drift = 0 /\ unwrapped = NoResult

StubIdle == stubPc = "idle" /\ stubIn = NoStub /\ buf = <<>> /\ decoded = NoDecoded

NoMatch == [kind |-> "NotYet", ret |-> FALSE]

UnwrapIdle == unwraps = <<>> /\ todo = 0 /\ matched = NoMatch

OpenIdle ==
    /\ openPc = "idle" /\ serialArg = None /\ plugged = {} /\ readersIter = {}
    /\ openNow = 0 /\ openStart = -1 /\ openLog = <<>> /\ openResult = NoResult
    /\ plugEvents = 0

NoBuilder == [kind |-> "NoBuilder"]

BuildIdle ==
    /\ buildPc = "idle" /\ builder = NoBuilder /\ keys = {} /\ chosen = 0
    /\ buildLog = <<>> /\ buildResult = NoResult

SlotIdle == slotPc = "idle" /\ slotArg = None /\ selected = NoResult

CliIdle == OpenIdle /\ BuildIdle /\ SlotIdle

InitStub == StubIdle /\ StanzaIdle /\ ConnectIdle /\ UnwrapIdle /\ CliIdle

\* a stub is built and serialized: let encoded = stub.to_bytes()
EncodeStub ==
    /\ stubPc = "idle"
    /\ \E serial \in SerialSamples, slot \in RetiredSlotIds, tag \in TagSamples,
          i \in 0..MaxIndex :
            /\ stubIn' = Stub(serial, slot, tag, i)
            /\ buf' = to_bytes(Stub(serial, slot, tag, i))
    /\ stubPc' = "encoded"
    /\ UNCHANGED <<decoded, stanzaVars, connectVars, unwrapVars, cliVars>>

\* bytes arrive from outside (a decoded identity string of any length)
RawBytes ==
    /\ stubPc = "idle"
    /\ \E b \in RawBuffers : buf' = b
    /\ stubIn' = NoStub
    /\ stubPc' = "raw"
    /\ UNCHANGED <<decoded, stanzaVars, connectVars, unwrapVars, cliVars>>

\* Stub::from_bytes(&buf, identity_index)
DecodeBytes ==
    /\ stubPc \in {"encoded", "raw"}
    /\ \E i \in 0..MaxIndex : decoded' = from_bytes(buf, i)
    /\ stubPc' = "decoded"
    /\ UNCHANGED <<stubIn, buf, stanzaVars, connectVars, unwrapVars, cliVars>>

NextStub == EncodeStub \/ RawBytes \/ DecodeBytes

SpecStub == InitStub /\ [][NextStub]_vars

(***************************************************************************)
(* C1: for every stub s and every identity index i,                        *)
(* from_bytes(to_bytes(s), i) is Some(stub) and that stub compares equal   *)
(* to s, whatever the two identity indices are.                            *)
(***************************************************************************)
C1_RoundTrip ==
    (stubPc = "decoded" /\ stubIn # NoStub) =>
        /\ decoded.kind = "Some"
        /\ StubEq(decoded.stub, stubIn)
        /\ decoded.stub.serial = stubIn.serial
        /\ decoded.stub.slot = stubIn.slot
        /\ decoded.stub.tag = stubIn.tag

\* a round trip of slot R20 with the highest serial, decoded under another index
C1_Witness ==
    /\ stubPc = "decoded" /\ stubIn # NoStub
    /\ stubIn.slot = 20 /\ stubIn.serial = 2147483647
    /\ decoded.kind = "Some"
    /\ decoded.stub.identity_index # stubIn.identity_index
    /\ StubEq(decoded.stub, stubIn)

(***************************************************************************)
(* C2: from_bytes returns none whenever the slot byte is not a recognized  *)
(* retired-slot code or the buffer is not exactly 9 bytes long.            *)
(***************************************************************************)
C2_WrongInputIsNone ==
    (stubPc = "decoded" /\
        (Len(buf) # 9 \/ slot_try_from(buf[5]).kind = "None")) =>
            decoded = None

(***************************************************************************)
(* SpecStanza: from_stanza applied to bounded records.                     *)
(***************************************************************************)
\* bodies have 0..MaxBodyLen bytes
MaxBodyLen == 34

Body(n) == [i \in 1..n |-> (i * 13) % 256]

\* a record of another recipient type
FOREIGN_TAG == "X25519"

GoodArg0 == base64_encode(<<7, 7, 7, 7>>)

\* the first argument: well-formed, one symbol short, one symbol long, with a
\* character outside the alphabet, with non-zero trailing bits
Arg0Samples ==
    { GoodArg0, Take(GoodArg0, 5), GoodArg0 \o <<0>>,
      [GoodArg0 EXCEPT ![3] = 64], [GoodArg0 EXCEPT ![6] = 49] }

GoodArg1 == base64_encode(<<2>> \o XBytes(1))

\* the second argument: two valid points, a point off the curve, an
\* uncompressed and an identity prefix, one symbol short, a bad character
Arg1Samples ==
    { GoodArg1, base64_encode(<<3>> \o XBytes(2)), base64_encode(<<2>> \o XBytes(40)),
      base64_encode(<<4>> \o XBytes(1)), base64_encode(<<0>> \o XBytes(1)),
      Take(GoodArg1, 43), [GoodArg1 EXCEPT ![44] = 64] }

ExtraArg == base64_encode(<<1, 2, 3>>)

ArgLists ==
    { <<>> } \cup { <<a0>> : a0 \in Arg0Samples }
    \cup { <<a0, a1>> : a0 \in Arg0Samples, a1 \in Arg1Samples }
    \cup { <<a0, a1, ExtraArg>> : a0 \in Arg0Samples, a1 \in Arg1Samples }

InitStanza == StubIdle /\ StanzaIdle /\ ConnectIdle /\ UnwrapIdle /\ CliIdle

\* the transport delivers a record
ReceiveStanza ==
    /\ stzPc = "idle"
    /\ \E tag \in {STANZA_TAG, FOREIGN_TAG}, args \in ArgLists, n \in 0..MaxBodyLen :
          stanza' = [tag |-> tag, args |-> args, body |-> Body(n)]
    /\ stzPc' = "received"
    /\ UNCHANGED <<parsed, stubVars, connectVars, unwrapVars, cliVars>>

\* RecipientLine::from_stanza(&stanza)
ParseStanza ==
    /\ stzPc = "received"
    /\ parsed' = from_stanza(stanza)
    /\ stzPc' = "parsed"
    /\ UNCHANGED <<stanza, stubVars, connectVars, unwrapVars, cliVars>>

NextStanza == ReceiveStanza \/ ParseStanza

SpecStanza == InitStanza /\ [][NextStanza]_vars

\* both arguments of a two-argument record decode: 4 tag bytes and a valid
\* compressed point
WellFormedArgs(s) ==
    /\ Len(s.args) >= 2
    /\ base64_arg(s.args[1], TAG_BYTES).kind = "Some"
    /\ base64_arg(s.args[2], EPK_BYTES).kind = "Some"
    /\ Recipient_from_bytes(base64_arg(s.args[2], EPK_BYTES).bytes).kind = "Some"

(***************************************************************************)
(* C3: a record with the scheme tag and two well-formed arguments whose    *)
(* body length is not the ciphertext length parses to Some(Err(..)),       *)
(* never to None.                                                          *)
(***************************************************************************)
C3_WrongBodyIsMalformed ==
    (/\ stzPc = "parsed" /\ stanza.tag = STANZA_TAG
     /\ Len(stanza.args) = 2 /\ WellFormedArgs(stanza)
     /\ Len(stanza.body) # ENCRYPTED_FILE_KEY_BYTES) =>
        parsed = SomeErr

(***************************************************************************)
(* C4: a record with the scheme tag whose argument list does not hold      *)
(* exactly two arguments parses to Some(Err(..)).  Stated on records whose *)
(* body has the required length, so that the body plays no part.           *)
(***************************************************************************)
C4_WrongArgCountIsMalformed ==
    (/\ stzPc = "parsed" /\ stanza.tag = STANZA_TAG
     /\ Len(stanza.args) # 2
     /\ Len(stanza.body) = ENCRYPTED_FILE_KEY_BYTES) =>
        parsed = SomeErr

(***************************************************************************)
(* C5: a record whose tag is not the scheme tag parses to None, whatever   *)
(* its arguments and body are.                                             *)
(***************************************************************************)
C5_ForeignTagIsNone ==
    (stzPc = "parsed" /\ stanza.tag # STANZA_TAG) => parsed = None

\* a foreign record that would be a valid line under the scheme tag
C5_Witness ==
    /\ stzPc = "parsed" /\ stanza.tag = FOREIGN_TAG
    /\ Len(stanza.args) = 2 /\ WellFormedArgs(stanza)
    /\ Len(stanza.body) = ENCRYPTED_FILE_KEY_BYTES
    /\ parsed = None

\* the parser accepts a well-formed record and decodes what was encoded
StanzaAcceptsWellFormed ==
    (/\ stzPc = "parsed" /\ stanza.tag = STANZA_TAG
     /\ stanza.args = <<GoodArg0, GoodArg1>>
     /\ Len(stanza.body) = ENCRYPTED_FILE_KEY_BYTES) =>
        /\ parsed.kind = "SomeOk"
        /\ parsed.line.tag = <<7, 7, 7, 7>>
        /\ as_bytes(parsed.line.epk) = <<2>> \o XBytes(1)

(***************************************************************************)
(* Stub::connect and Connection::unwrap_file_key (src/yubikey.rs).         *)
(* Time is counted in tenths of a second.                                  *)
(***************************************************************************)
ONE_SECOND == 10
FIFTEEN_SECONDS == 150

\* a sleep lasts ONE_SECOND plus 0..MaxJitter tenths
MaxJitter == 1
\* an open attempt inside the wait loop takes 0..MaxLatency tenths
MaxLatency == 1
\* the polls of one wait fall at most MaxDrift tenths behind in total
MaxDrift == 2
\* the callbacks take MessageTook tenths to show the insert message
MessageTook == 7
\* private scalars of the device key are 1..MaxScalar
MaxScalar == 3
\* after connect the plugin looks at MaxUnwraps stanzas of the header
MaxUnwraps == 1
\* a header unwrapped over an established connection has MaxStanzas stanzas
MaxStanzas == 2

\* the device never appears: later than any wait lasts
Never == 100 * FIFTEEN_SECONDS

\* identity::Error::Identity { index, message }
IdentityError(index, message) ==
    [kind |-> "Identity", index |-> index, message |-> message]

\* the io::Error a callback returned, passed on by `?`
IoError == [kind |-> "IoError"]

\* Connection { yubikey, pk, slot, tag }
Connection(handle, recipient, slot, tag) ==
    [kind |-> "Connection", yubikey |-> handle, pk |-> recipient,
     slot |-> slot, tag |-> tag]

Call(name, ret) == [call |-> name, ret |-> ret]

Calls(name) == { i \in 1..Len(log) : log[i].call = name }

\* YubiKey::open_by_serial: what it can return for a device that is, or is
\* not, connected; any other error (PC/SC failure) can come up at any time
OpenOutcomes(present) ==
    IF present THEN {"Ok", "Error"} ELSE {"NotFound", "Error"}

\* whether the device is connected while connect waits for it
Present == now - start >= dev.appearAfter

\* read_pk without the .filter(|pk| pk.tag() == self.tag)
read_pk_unfiltered(cert, tag) ==
    IF cert.kind = "NoCert" THEN None
    ELSE IF cert.kind # "EcP256" THEN None
    ELSE from_pubkey(cert.pubkey)

\* the closure over Certificate::read(..).ok(): the slot's key as a Recipient,
\* kept only if its tag is the stub's
read_pk(cert, tag) ==
    IF cert.kind = "NoCert" THEN None
    ELSE IF cert.kind # "EcP256" THEN None
    ELSE LET r == from_pubkey(cert.pubkey)
         IN  IF r.kind = "Some" /\ Recipient_tag(r) = tag THEN r ELSE None

\* let mut yubikey = match YubiKey::open_by_serial(self.serial)
FirstOpen ==
    /\ pc = "open"
    /\ \E outcome \in OpenOutcomes(dev.present0) :
        /\ log' = Append(log, Call("open_by_serial", outcome))
        /\ \/ outcome = "Ok" /\ yubikey' = TRUE /\ pc' = "read_cert"
              /\ UNCHANGED result
           \/ outcome = "NotFound" /\ pc' = "message"
              /\ UNCHANGED <<yubikey, result>>
           \/ outcome = "Error" /\ pc' = "done"
              /\ result' = IdentityError(self.identity_index, "Could not open YubiKey")
              /\ UNCHANGED yubikey
    /\ UNCHANGED <<self, dev, now, start, pk, pin, drift, unwrapped, stubVars, stanzaVars,
                   unwrapVars, cliVars>>

\* Message with the decline ignored: the wait starts whatever the answer was
Message_ignores_decline ==
    /\ pc = "message"
    /\ \E answer \in {"Ok", "Declined", "IoError"} :
        /\ log' = Append(log, Call("message", answer))
        /\ now' = now + MessageTook
        /\ \/ answer \in {"Ok", "Declined"} /\ start' = now' /\ pc' = "poll"
              /\ UNCHANGED result
           \/ answer = "IoError" /\ pc' = "done" /\ result' = IoError
              /\ UNCHANGED start
    /\ UNCHANGED <<self, dev, yubikey, pk, pin, drift, unwrapped, stubVars, stanzaVars,
                   unwrapVars, cliVars>>

\* callbacks.message("Please insert YubiKey ..")?, then the timer starts
Message ==
    /\ pc = "message"
    /\ \E answer \in {"Ok", "Declined", "IoError"} :
        /\ log' = Append(log, Call("message", answer))
        /\ now' = now + MessageTook
        /\ \/ answer = "Ok" /\ start' = now' /\ pc' = "poll"
              /\ UNCHANGED result
           \/ answer = "Declined" /\ pc' = "done"
              /\ result' = IdentityError(self.identity_index, "Could not find YubiKey")
              /\ UNCHANGED start
           \/ answer = "IoError" /\ pc' = "done" /\ result' = IoError
              /\ UNCHANGED start
    /\ UNCHANGED <<self, dev, yubikey, pk, pin, drift, unwrapped, stubVars, stanzaVars,
                   unwrapVars, cliVars>>

\* inside the loop: match YubiKey::open_by_serial(self.serial)
Poll ==
    /\ pc = "poll"
    /\ \E outcome \in OpenOutcomes(Present), took \in 0..MaxLatency :
        /\ drift + took <= MaxDrift
        /\ log' = Append(log, Call("open_by_serial", outcome))
        /\ now' = now + took
        /\ drift' = drift + took
        /\ \/ outcome = "Ok" /\ yubikey' = TRUE /\ pc' = "read_cert"
              /\ UNCHANGED result
           \/ outcome = "NotFound" /\ pc' = "elapsed"
              /\ UNCHANGED <<yubikey, result>>
           \/ outcome = "Error" /\ pc' = "done"
              /\ result' = IdentityError(self.identity_index, "Could not open YubiKey")
              /\ UNCHANGED yubikey
    /\ UNCHANGED <<self, dev, start, pk, pin, unwrapped, stubVars, stanzaVars,
                   unwrapVars, cliVars>>

\* the timeout test with > in place of >=
TimedOut_strict(elapsed) == elapsed > FIFTEEN_SECONDS

\* Ok(end) if end >= FIFTEEN_SECONDS
TimedOut(elapsed) == elapsed >= FIFTEEN_SECONDS

\* CheckElapsed without the timeout arm: it sleeps whatever time has passed
CheckElapsed_never_gives_up ==
    /\ pc = "elapsed"
    /\ \E jitter \in 0..MaxJitter :
          /\ drift + jitter <= MaxDrift
          /\ now' = now + ONE_SECOND + jitter
          /\ drift' = drift + jitter
    /\ pc' = "poll"
    /\ UNCHANGED <<self, dev, start, yubikey, pk, pin, result, log, unwrapped, stubVars,
                   stanzaVars, unwrapVars, cliVars>>

\* match SystemTime::now().duration_since(start): give up, or sleep(ONE_SECOND)
CheckElapsed ==
    /\ pc = "elapsed"
    /\ \/ /\ TimedOut(now - start)
          /\ pc' = "done"
          /\ result' = IdentityError(self.identity_index,
                                     "Timed out while waiting for YubiKey to be inserted")
          /\ UNCHANGED <<now, drift>>
       \/ /\ ~TimedOut(now - start)
          /\ \E jitter \in 0..MaxJitter :
                /\ drift + jitter <= MaxDrift
                /\ now' = now + ONE_SECOND + jitter
                /\ drift' = drift + jitter
          /\ pc' = "poll"
          /\ UNCHANGED result
    /\ UNCHANGED <<self, dev, start, yubikey, pk, pin, log, unwrapped, stubVars, stanzaVars,
                   unwrapVars, cliVars>>

\* Read the pubkey from the YubiKey slot and check it still matches
ReadCert ==
    /\ pc = "read_cert"
    /\ log' = Append(log, Call("Certificate::read", dev.cert.kind))
    /\ LET found == read_pk(dev.cert, self.tag)
       IN  \/ found.kind = "Some" /\ pk' = found /\ pc' = "request_pin"
              /\ UNCHANGED result
           \/ found.kind = "None" /\ pc' = "done"
              /\ result' = IdentityError(self.identity_index,
                                         "A YubiKey stub did not match the YubiKey")
              /\ UNCHANGED pk
    /\ UNCHANGED <<self, dev, now, start, yubikey, pin, drift, unwrapped, stubVars, stanzaVars,
                   unwrapVars, cliVars>>

PinSamples == {"123456", "654321"}

\* RequestPin that returns the declined request as the outer error
RequestPin_decline_aborts ==
    /\ pc = "request_pin"
    /\ \/ \E entered \in PinSamples :
            /\ log' = Append(log, Call("request_secret", "Ok"))
            /\ pin' = entered /\ pc' = "verify_pin"
            /\ UNCHANGED result
       \/ /\ log' = Append(log, Call("request_secret", "Declined"))
          /\ pc' = "done" /\ result' = IoError
          /\ UNCHANGED pin
       \/ /\ log' = Append(log, Call("request_secret", "IoError"))
          /\ pc' = "done" /\ result' = IoError
          /\ UNCHANGED pin
    /\ UNCHANGED <<self, dev, now, start, yubikey, pk, drift, unwrapped, stubVars, stanzaVars,
                   unwrapVars, cliVars>>

\* callbacks.request_secret("Enter PIN for YubiKey ..")?
RequestPin ==
    /\ pc = "request_pin"
    /\ \/ \E entered \in PinSamples :
            /\ log' = Append(log, Call("request_secret", "Ok"))
            /\ pin' = entered /\ pc' = "verify_pin"
            /\ UNCHANGED result
       \/ /\ log' = Append(log, Call("request_secret", "Declined"))
          /\ pc' = "done"
          /\ result' = IdentityError(self.identity_index, "A PIN is required for YubiKey")
          /\ UNCHANGED pin
       \/ /\ log' = Append(log, Call("request_secret", "IoError"))
          /\ pc' = "done" /\ result' = IoError
          /\ UNCHANGED pin
    /\ UNCHANGED <<self, dev, now, start, yubikey, pk, drift, unwrapped, stubVars, stanzaVars,
                   unwrapVars, cliVars>>

\* yubikey.verify_pin: the device accepts its own PIN, unless the call fails
VerifyOutcomes(entered) ==
    IF entered = dev.pin THEN {"Ok", "Error"} ELSE {"Error"}

\* VerifyPin that asks for the PIN again when the device rejects it
VerifyPin_retries ==
    /\ pc = "verify_pin"
    /\ \E outcome \in VerifyOutcomes(pin) :
        /\ log' = Append(log, Call("verify_pin", outcome))
        /\ \/ outcome = "Error" /\ pc' = "request_pin" /\ UNCHANGED result
           \/ outcome = "Ok" /\ pc' = "done"
              /\ result' = Connection(yubikey, pk, self.slot, self.tag)
    /\ UNCHANGED <<self, dev, now, start, yubikey, pk, pin, drift, unwrapped, stubVars, stanzaVars,
                   unwrapVars, cliVars>>

\* VerifyPin that binds the connection whatever verify_pin returned
VerifyPin_unchecked ==
    /\ pc = "verify_pin"
    /\ \E outcome \in VerifyOutcomes(pin) :
        /\ log' = Append(log, Call("verify_pin", outcome))
        /\ result' = Connection(yubikey, pk, self.slot, self.tag)
    /\ pc' = "done"
    /\ UNCHANGED <<self, dev, now, start, yubikey, pk, pin, drift, unwrapped, stubVars, stanzaVars,
                   unwrapVars, cliVars>>

\* if yubikey.verify_pin(..).is_err() { return invalid PIN }; Ok(Ok(Connection {..}))
VerifyPin ==
    /\ pc = "verify_pin"
    /\ \E outcome \in VerifyOutcomes(pin) :
        /\ log' = Append(log, Call("verify_pin", outcome))
        /\ \/ outcome = "Error"
              /\ result' = IdentityError(self.identity_index, "Invalid YubiKey PIN")
           \/ outcome = "Ok"
              /\ result' = Connection(yubikey, pk, self.slot, self.tag)
    /\ pc' = "done"
    /\ UNCHANGED <<self, dev, now, start, yubikey, pk, pin, drift, unwrapped, stubVars, stanzaVars,
                   unwrapVars, cliVars>>

(***************************************************************************)
(* Key wrapping (src/format.rs) and unwrapping (src/yubikey.rs).  The key  *)
(* derivation and the AEAD are ideal: a derived key is the triple it was   *)
(* derived from, a ciphertext opens only under the key that sealed it.     *)
(***************************************************************************)
STANZA_KEY_LABEL == "age-encryption.org/v1/piv-p256"

\* the point a Recipient encodes (Recipient::decompress)
decompress(recipient) ==
    CHOOSE q \in 1..(GroupP - 1) : XBytes(q) = SubSeq(recipient.bytes, 2, 33)

\* ECDH: agree_ephemeral on the sender's side, decrypt_data on the device
agree(d, q) == PowMod(q, d)

hkdf(salt, label, ikm) == [salt |-> salt, label |-> label, ikm |-> ikm]

aead_encrypt(key, plaintext) == [key |-> key, plaintext |-> plaintext]

aead_decrypt(key, ciphertext) ==
    IF ciphertext.key = key
    THEN [kind |-> "Ok", file_key |-> ciphertext.plaintext]
    ELSE Err

\* the Recipient of the key pair with private scalar d
RecipientOf(d) == from_pubkey(Uncompressed(PointOf(d)))

\* RecipientLine::wrap_file_key, with the ephemeral scalar the RNG drew
wrap_file_key(file_key, recipient, esk) ==
    LET epk == Recipient_from_bytes(<<4>> \o XBytes(PointOf(esk)) \o YBytes(PointOf(esk)))
        shared_secret == agree(esk, decompress(recipient))
        salt == as_bytes(epk) \o as_bytes(recipient)
        enc_key == hkdf(salt, STANZA_KEY_LABEL, shared_secret)
    IN  [tag |-> Recipient_tag(recipient), epk |-> epk,
         encrypted_file_key |-> aead_encrypt(enc_key, file_key)]

FileKeys == {"file-key-1", "file-key-2"}

\* ephemeral scalars the sender's RNG draws
EphemeralScalars == {4, 6}

\* the stanzas a file header may carry
Lines ==
    { wrap_file_key(fk, RecipientOf(d), e) :
        fk \in FileKeys, d \in 1..MaxScalar, e \in EphemeralScalars }

\* Stub::new: the tag is the recipient's, the identity index is 0
Stub_new(serial, slot, recipient) == Stub(serial, slot, Recipient_tag(recipient), 0)

\* matches comparing the lengths of the two tags, not their bytes
matches_length_only(stub, line) == Len(stub.tag) = Len(line.tag)

\* Stub::matches
matches(stub, line) == stub.tag = line.tag

\* the plugin takes the next stanza of the header: stub.matches(&line)
Matches ==
    /\ pc = "done" /\ result.kind = "Connection"
    /\ todo > 0
    /\ \E line \in Lines : matched' = [line |-> line, ret |-> matches(self, line)]
    /\ todo' = todo - 1
    /\ UNCHANGED <<connectVars, unwraps, stubVars, stanzaVars, cliVars>>

\* unwrap_with taking the salt as recipient bytes followed by ephemeral bytes
unwrap_with_salt_swapped(connection, line, shared_secret) ==
    LET salt == as_bytes(connection.pk) \o as_bytes(line.epk)
        enc_key == hkdf(salt, STANZA_KEY_LABEL, shared_secret)
    IN  aead_decrypt(enc_key, line.encrypted_file_key)

\* Connection::unwrap_file_key once decrypt_data has returned shared_secret
unwrap_with(connection, line, shared_secret) ==
    LET salt == as_bytes(line.epk) \o as_bytes(connection.pk)
        enc_key == hkdf(salt, STANZA_KEY_LABEL, shared_secret)
    IN  aead_decrypt(enc_key, line.encrypted_file_key)

\* decrypt_data(&mut self.yubikey, point, AlgorithmId::EccP256, SlotId::Retired(slot))
DecryptCall(ret, slot, point) ==
    [call |-> "decrypt_data", ret |-> ret, slot |-> slot, point |-> point]

\* UnwrapFileKey that calls decrypt_data a second time when the first call failed
UnwrapFileKey_retries ==
    /\ pc = "done" /\ result.kind = "Connection"
    /\ matched # NoMatch /\ matched.ret
    /\ LET line == matched.line
       IN  IF result.tag # line.tag
           THEN /\ unwrapped' = Panic
                /\ unwraps' = Append(unwraps, [line |-> line, ret |-> Panic])
                /\ UNCHANGED log
           ELSE \E hardware \in {"Ok", "Error"}, again \in {"Ok", "Error"} :
                  LET point == decompress(line.epk)
                      shared == agree(dev.sk, point)
                      ret == IF hardware = "Error" /\ again = "Error" THEN Err
                             ELSE unwrap_with(result, line, shared)
                  IN  /\ log' = IF hardware = "Ok"
                                THEN Append(log, DecryptCall("Ok", result.slot, point))
                                ELSE log \o << DecryptCall("Error", result.slot, point),
                                               DecryptCall(again, result.slot, point) >>
                      /\ unwrapped' = ret
                      /\ unwraps' = Append(unwraps, [line |-> line, ret |-> ret])
    /\ matched' = NoMatch
    /\ UNCHANGED <<pc, self, dev, now, start, yubikey, pk, pin, result, drift, todo,
                   stubVars, stanzaVars, cliVars>>

\* connection.unwrap_file_key(&line), for the line the stub has just matched:
\* assert_eq!(self.tag, line.tag), one decrypt_data on the connection's slot,
\* then hkdf and aead_decrypt
UnwrapFileKey ==
    /\ pc = "done" /\ result.kind = "Connection"
    /\ matched # NoMatch /\ matched.ret
    /\ LET line == matched.line
       IN  IF result.tag # line.tag
           THEN /\ unwrapped' = Panic
                /\ unwraps' = Append(unwraps, [line |-> line, ret |-> Panic])
                /\ UNCHANGED log
           ELSE \E hardware \in {"Ok", "Error"} :
                  LET point == decompress(line.epk)
                      ret == IF hardware = "Error" THEN Err
                             ELSE unwrap_with(result, line, agree(dev.sk, point))
                  IN  /\ log' = Append(log, DecryptCall(hardware, result.slot, point))
                      /\ unwrapped' = ret
                      /\ unwraps' = Append(unwraps, [line |-> line, ret |-> ret])
    /\ matched' = NoMatch
    /\ UNCHANGED <<pc, self, dev, now, start, yubikey, pk, pin, result, drift, todo,
                   stubVars, stanzaVars, cliVars>>

(***************************************************************************)
(* SpecConnect: one call of Stub::connect, then unwraps on the connection. *)
(***************************************************************************)
\* what the stub's slot may hold on the device with private scalar d
CertSamples(d) ==
    { [kind |-> "NoCert"], [kind |-> "Rsa"],
      [kind |-> "EcP256", pubkey |-> Uncompressed(PointOf(d))],
      [kind |-> "EcP256", pubkey |-> Compressed(PointOf(d))],
      [kind |-> "EcP256",
       pubkey |-> [kind |-> "Ok", form |-> "compressed", prefix |-> 2, x |-> XBytes(40)]] }

\* when the device appears, in tenths of a second after the timer starts
AppearSamples == {0, 149, 151, Never}

\* the tags a stub may carry: of a key pair, or of nothing (a corrupted stub)
StubTags == { Recipient_tag(RecipientOf(d)) : d \in 1..MaxScalar } \cup { <<9, 9, 9, 9>> }

InitConnect ==
    /\ StubIdle /\ StanzaIdle
    /\ pc = "open"
    /\ \E slot \in {1, 20}, tag \in StubTags, i \in 0..MaxIndex :
          self = Stub(42, slot, tag, i)
    /\ \E d \in 1..MaxScalar, present0 \in BOOLEAN, appearAfter \in AppearSamples :
          /\ present0 => appearAfter = 0
          /\ \E cert \in CertSamples(d) :
                dev = [sk |-> d, cert |-> cert, pin |-> "123456",
                       present0 |-> present0, appearAfter |-> appearAfter]
    /\ now = 0 /\ start = -1 /\ yubikey = FALSE /\ pk = NoRecipient /\ pin = NoPin
    /\ result = NoResult /\ log = <<>> /\ drift = 0 /\ unwrapped = NoResult
    /\ unwraps = <<>> /\ todo = MaxUnwraps /\ matched = NoMatch
    /\ CliIdle

NextConnect ==
    \/ FirstOpen \/ Message \/ Poll \/ CheckElapsed
    \/ ReadCert \/ RequestPin \/ VerifyPin \/ Matches \/ UnwrapFileKey

SpecConnect == InitConnect /\ [][NextConnect]_vars

\* the steps of connect itself
ConnectStep ==
    \/ FirstOpen \/ Message \/ Poll \/ CheckElapsed
    \/ ReadCert \/ RequestPin \/ VerifyPin

\* connect is sequential code: once a device call, a callback or a sleep
\* returns, the next statement runs
SpecConnectFair == InitConnect /\ [][ConnectStep]_vars /\ WF_vars(ConnectStep)

\* the positions of the calls of one kind and outcome
CallsWith(name, ret) == { i \in 1..Len(log) : log[i] = Call(name, ret) }

\* the decrypt_data calls made so far, in order
DecryptCalls == SelectSeq(log, LAMBDA c : c.call = "decrypt_data")

(***************************************************************************)
(* C6: when the first open reports not-found the insert message is sent    *)
(* exactly once; when the callbacks decline it, connect returns the        *)
(* identity error of this stub and makes no further call: no open, no PIN  *)
(* request, no verify_pin.                                                 *)
(***************************************************************************)
C6_DeclineEndsConnect ==
    /\ Cardinality(Calls("message")) <= 1
    /\ Calls("message") # {} => log[1] = Call("open_by_serial", "NotFound")
    /\ (pc \notin {"open", "message"} /\ log[1] = Call("open_by_serial", "NotFound"))
          => Calls("message") = {2}
    /\ CallsWith("message", "Declined") # {} =>
          /\ pc = "done"
          /\ result = IdentityError(self.identity_index, "Could not find YubiKey")
          /\ Len(log) = 2
          /\ Cardinality(Calls("open_by_serial")) = 1
          /\ Calls("request_secret") = {} /\ Calls("verify_pin") = {}
          /\ yubikey = FALSE

\* the message was declined and connect has returned
C6_Witness ==
    /\ pc = "done"
    /\ log = << Call("open_by_serial", "NotFound"), Call("message", "Declined") >>
    /\ result.kind = "Identity" /\ result.index = self.identity_index

(***************************************************************************)
(* C7: with the polls exactly one second apart, counted from the           *)
(* notification, a device that appears 14.9 s after it is opened (by the   *)
(* poll made at 15.0 s, before the timeout is tested) and connect goes on; *)
(* a device that appears at 15.1 s is never opened and connect returns the *)
(* timed-out error.  Both unless an open fails with another error.         *)
(***************************************************************************)
WaitOver == start # -1 /\ pc \notin {"poll", "elapsed"}

TimedOutError ==
    IdentityError(self.identity_index, "Timed out while waiting for YubiKey to be inserted")

C7_WitnessOpened ==
    /\ WaitOver /\ drift = 0 /\ dev.appearAfter = 149
    /\ yubikey = TRUE /\ now - start = FIFTEEN_SECONDS

\* C7 without the cadence: it fails, since a sleep that overruns lets the
\* poll after 15.0 s find a device that appeared at 15.1 s
C7_AnyCadence ==
    (WaitOver /\ CallsWith("open_by_serial", "Error") = {}) =>
        /\ dev.appearAfter = 149 => yubikey = TRUE
        /\ dev.appearAfter = 151 => (yubikey = FALSE /\ result = TimedOutError)

(***************************************************************************)
(* C8: the slot's key is read and its tag compared with the stub's before  *)
(* anything else is done with the open device.  If the slot holds no       *)
(* certificate, a key that is not P-256, an invalid point, or a key whose  *)
(* tag is not the stub's, connect returns the mismatch identity error: no  *)
(* PIN is requested, verify_pin is not called, no Connection is built and  *)
(* decrypt_data is never called.                                           *)
(***************************************************************************)
SlotMismatch ==
    \/ dev.cert.kind \in {"NoCert", "Rsa"}
    \/ /\ dev.cert.kind = "EcP256"
       /\ \/ dev.cert.pubkey.form = "compressed" /\ dev.cert.pubkey.x \notin OnCurveXs
          \/ \E d \in 1..MaxScalar :
                /\ dev.cert.pubkey.x = XBytes(PointOf(d))
                /\ Recipient_tag(RecipientOf(d)) # self.tag

MismatchError ==
    IdentityError(self.identity_index, "A YubiKey stub did not match the YubiKey")

C8_MismatchBeforePin ==
    /\ \A i \in Calls("request_secret") \cup Calls("verify_pin") \cup Calls("decrypt_data") :
          \E j \in Calls("Certificate::read") : j < i
    /\ Cardinality(Calls("Certificate::read")) <= 1
    /\ (Calls("Certificate::read") # {} /\ SlotMismatch) =>
          /\ pc = "done"
          /\ result = MismatchError
          /\ Calls("request_secret") = {} /\ Calls("verify_pin") = {}
          /\ Calls("decrypt_data") = {}
          /\ pk = NoRecipient

\* the slot holds a valid P-256 key of another tag, and connect has returned
C8_Witness ==
    /\ pc = "done" /\ yubikey = TRUE
    /\ dev.cert.kind = "EcP256" /\ from_pubkey(dev.cert.pubkey).kind = "Some"
    /\ Recipient_tag(from_pubkey(dev.cert.pubkey)) # self.tag
    /\ result = MismatchError

(***************************************************************************)
(* C9: within one connect the PIN is requested at most once and verify_pin *)
(* is called at most once; a declined request ends with the missing-PIN    *)
(* identity error and no verify_pin; a rejected PIN ends with the          *)
(* invalid-PIN identity error.                                             *)
(***************************************************************************)
C9_PinAtMostOnce ==
    /\ Cardinality(Calls("request_secret")) <= 1
    /\ Cardinality(Calls("verify_pin")) <= 1
    /\ CallsWith("request_secret", "Declined") # {} =>
          /\ pc = "done"
          /\ result = IdentityError(self.identity_index, "A PIN is required for YubiKey")
          /\ Calls("verify_pin") = {}
    /\ CallsWith("verify_pin", "Error") # {} =>
          /\ pc = "done"
          /\ result = IdentityError(self.identity_index, "Invalid YubiKey PIN")
          /\ log[Len(log)] = Call("verify_pin", "Error")

\* the device rejected a wrong PIN and connect has returned
C9_Witness ==
    /\ pc = "done" /\ pin # NoPin /\ pin # dev.pin
    /\ log[Len(log)] = Call("verify_pin", "Error")
    /\ Cardinality(Calls("request_secret")) = 1
    /\ result = IdentityError(self.identity_index, "Invalid YubiKey PIN")

(***************************************************************************)
(* C10: a Connection is returned only after the device was opened, the     *)
(* slot's key was read and matched the stub, the PIN was obtained and      *)
(* verify_pin succeeded, in this order; its slot and tag are the stub's,   *)
(* its pk is the key read from the slot and pk.tag() is its tag.           *)
(***************************************************************************)
C10_ConnectionBound ==
    result.kind = "Connection" =>
        /\ \E o \in CallsWith("open_by_serial", "Ok"),
              c \in CallsWith("Certificate::read", "EcP256"),
              r \in CallsWith("request_secret", "Ok"),
              v \in CallsWith("verify_pin", "Ok") :
                o < c /\ c < r /\ r < v
        /\ CallsWith("verify_pin", "Error") = {}
        /\ pin = dev.pin
        /\ result.yubikey = TRUE
        /\ result.slot = self.slot
        /\ result.tag = self.tag
        /\ result.pk = from_pubkey(dev.cert.pubkey)
        /\ result.pk = RecipientOf(dev.sk)
        /\ Recipient_tag(result.pk) = result.tag

\* a connection on a device that was inserted during the wait and whose
\* certificate holds the key uncompressed
C10_Witness ==
    /\ result.kind = "Connection"
    /\ start # -1
    /\ dev.cert.pubkey.form = "uncompressed"
    /\ Len(as_bytes(result.pk)) = EPK_BYTES

(***************************************************************************)
(* C13: when connect fails because the device cannot be opened, the insert *)
(* message is declined, the wait times out, the slot's key does not match, *)
(* the PIN request is declined or the device rejects the PIN, it returns   *)
(* Ok(Err(identity::Error::Identity)) whose index is the identity_index of *)
(* the stub; the outer error is returned only when a callback itself       *)
(* reports an I/O error.                                                   *)
(***************************************************************************)
\* the call connect made last, before any unwrap
LastConnectCall == log[Len(log) - Len(DecryptCalls)]

\* a callback returned io::Error, which `?` passes to the caller of connect
CallbackIoFailed ==
    CallsWith("message", "IoError") # {} \/ CallsWith("request_secret", "IoError") # {}

C13_FailuresAreIdentityScoped ==
    pc = "done" =>
        /\ result.kind \in {"Connection", "Identity", "IoError"}
        /\ result.kind = "IoError" <=> CallbackIoFailed
        /\ result.kind = "Identity" => result.index = self.identity_index
        /\ LastConnectCall = Call("open_by_serial", "Error") =>
              result = IdentityError(self.identity_index, "Could not open YubiKey")
        /\ LastConnectCall = Call("message", "Declined") =>
              result = IdentityError(self.identity_index, "Could not find YubiKey")
        /\ LastConnectCall = Call("open_by_serial", "NotFound") =>
              result = TimedOutError
        /\ LastConnectCall.call = "Certificate::read" => result = MismatchError
        /\ LastConnectCall = Call("request_secret", "Declined") =>
              result = IdentityError(self.identity_index, "A PIN is required for YubiKey")
        /\ LastConnectCall = Call("verify_pin", "Error") =>
              result = IdentityError(self.identity_index, "Invalid YubiKey PIN")
        /\ LastConnectCall = Call("verify_pin", "Ok") => result.kind = "Connection"

\* the PIN request of the stub with identity index 1 was declined
C13_Witness ==
    /\ pc = "done" /\ self.identity_index = 1
    /\ LastConnectCall = Call("request_secret", "Declined")
    /\ result.kind = "Identity" /\ result.index = 1

\* a failed open of the stub with identity index 1, during the wait
C13_WitnessOpen ==
    /\ pc = "done" /\ self.identity_index = 1 /\ start # -1
    /\ LastConnectCall = Call("open_by_serial", "Error")
    /\ result.kind = "Identity" /\ result.index = 1

\* the I/O error of a callback is the one failure returned as the outer error
C13_WitnessIoError ==
    /\ pc = "done" /\ result = IoError /\ CallbackIoFailed

(***************************************************************************)
(* C15: provided every device call, callback and sleep returns, every call *)
(* of connect returns.  After the insert message the device is polled at   *)
(* most once per second of the 15-second wait and once more at its end,    *)
(* and the wait ends with the device open, with the error of an open that  *)
(* failed otherwise than not-found, or with the timed-out error.           *)
(***************************************************************************)
\* one poll as the wait starts and one after each full second of it
MaxPolls == FIFTEEN_SECONDS \div ONE_SECOND + 1

\* the opens made inside the wait loop: those after the first open and the message
WaitPolls == { i \in Calls("open_by_serial") : i > 2 }

PollsBounded ==
    /\ Cardinality(WaitPolls) <= MaxPolls
    /\ Cardinality(Calls("open_by_serial")) <= MaxPolls + 1
    /\ start # -1 => now - start <= FIFTEEN_SECONDS + MaxDrift
    /\ WaitOver =>
          \/ yubikey = TRUE /\ log[Max(WaitPolls)] = Call("open_by_serial", "Ok")
          \/ /\ pc = "done" /\ log[Len(log)] = Call("open_by_serial", "Error")
             /\ result = IdentityError(self.identity_index, "Could not open YubiKey")
          \/ /\ pc = "done" /\ log[Len(log)] = Call("open_by_serial", "NotFound")
             /\ result = TimedOutError /\ now - start >= FIFTEEN_SECONDS

C15_ConnectReturns == []PollsBounded /\ <>(pc = "done")

\* the wait made all its polls and connect returned the timed-out error
C15_Witness ==
    /\ pc = "done" /\ result = TimedOutError
    /\ Cardinality(WaitPolls) = MaxPolls

(***************************************************************************)
(* SpecUnwrap: a connection has been established for a stub that           *)
(* Stub::new made for the key of the device's slot; the plugin then goes   *)
(* through the stanzas of a header, asking Stub::matches for each and      *)
(* handing the matching ones to Connection::unwrap_file_key.               *)
(***************************************************************************)
\* the calls of a connect that found the device at once and was given its PIN
ConnectedLog ==
    << Call("open_by_serial", "Ok"), Call("Certificate::read", "EcP256"),
       Call("request_secret", "Ok"), Call("verify_pin", "Ok") >>

InitUnwrap ==
    /\ StubIdle /\ StanzaIdle /\ CliIdle
    /\ pc = "done"
    /\ \E d \in 1..MaxScalar, slot \in {1, 20} :
          /\ self = Stub_new(42, slot, RecipientOf(d))
          /\ \E cert \in CertSamples(d) :
                /\ read_pk(cert, self.tag).kind = "Some"
                /\ dev = [sk |-> d, cert |-> cert, pin |-> "123456",
                          present0 |-> TRUE, appearAfter |-> 0]
                /\ pk = read_pk(cert, self.tag)
          /\ result = Connection(TRUE, pk, self.slot, self.tag)
    /\ now = 0 /\ start = -1 /\ yubikey = TRUE /\ pin = "123456"
    /\ log = ConnectedLog /\ drift = 0 /\ unwrapped = NoResult
    /\ unwraps = <<>> /\ todo = MaxStanzas /\ matched = NoMatch

NextUnwrap == Matches \/ UnwrapFileKey

SpecUnwrap == InitUnwrap /\ [][NextUnwrap]_vars

Ok(file_key) == [kind |-> "Ok", file_key |-> file_key]

\* the recipients of the key pairs, by private scalar
Recipients == [d \in 1..MaxScalar |-> RecipientOf(d)]

\* wrap_file_key(fk, R, e) for every file key, recipient and ephemeral scalar
Wraps ==
    [fk \in FileKeys |->
        [d \in 1..MaxScalar |->
            [e \in EphemeralScalars |-> wrap_file_key(fk, RecipientOf(d), e)]]]

(***************************************************************************)
(* C11: on a connection whose slot holds the private key of recipient R,   *)
(* every unwrap_file_key of a stanza wrap_file_key(file_key, R) made, for  *)
(* which the device's decrypt_data returns, gives back exactly file_key;   *)
(* this holds for each stanza of the header, whatever ephemeral key the    *)
(* wrap drew.                                                              *)
(***************************************************************************)
C11_UnwrapRecoversFileKey ==
    \A k \in 1..Len(unwraps) :
        \A fk \in FileKeys, e \in EphemeralScalars :
            ( /\ result.pk = Recipients[dev.sk]
              /\ unwraps[k].line = Wraps[fk][dev.sk][e]
              /\ k <= Len(DecryptCalls) /\ DecryptCalls[k].ret = "Ok" )
            => unwraps[k].ret = Ok(fk)

\* two wraps of one file key under different ephemeral keys, both unwrapped
C11_Witness ==
    /\ Len(unwraps) = 2
    /\ unwraps[1].line # unwraps[2].line
    /\ unwraps[1].line.epk # unwraps[2].line.epk
    /\ \E fk \in FileKeys : unwraps[1].ret = Ok(fk) /\ unwraps[2].ret = Ok(fk)

(***************************************************************************)
(* C12: Stub::matches(line) is true exactly when the stub's tag is the     *)
(* line's tag.  The stub Stub::new made for recipient R carries R's tag,   *)
(* so it matches every stanza wrapped to R, and it matches a stanza        *)
(* wrapped to another recipient only if the two tags are equal.            *)
(***************************************************************************)
C12_MatchesIffSameTag ==
    matched # NoMatch =>
        /\ matched.ret = (self.tag = matched.line.tag)
        /\ self.tag = Recipient_tag(Recipients[dev.sk])
        /\ \A fk \in FileKeys, e \in EphemeralScalars, d \in 1..MaxScalar :
              matched.line = Wraps[fk][d][e] =>
                  /\ d = dev.sk => matched.ret
                  /\ matched.ret =>
                        Recipient_tag(Recipients[d]) = Recipient_tag(Recipients[dev.sk])

\* the stub matched a stanza wrapped to its own recipient
C12_Witness ==
    /\ matched # NoMatch /\ matched.ret
    /\ \E fk \in FileKeys, e \in EphemeralScalars :
          matched.line = Wraps[fk][dev.sk][e]

\* the stub matched a stanza wrapped to another recipient of the same tag
C12_WitnessCollision ==
    /\ matched # NoMatch /\ matched.ret
    /\ \E fk \in FileKeys, e \in EphemeralScalars, d \in 1..MaxScalar :
          d # dev.sk /\ matched.line = Wraps[fk][d][e]

\* the stub did not match a stanza wrapped to a recipient of another tag
C12_WitnessNoMatch ==
    /\ matched # NoMatch /\ ~matched.ret
    /\ matched.line.tag # self.tag

(***************************************************************************)
(* C14: each call of unwrap_file_key makes exactly one decrypt_data call,  *)
(* on the connection's slot and with the point of the stanza's ephemeral   *)
(* key.  When decrypt_data fails, or when the ciphertext does not open     *)
(* under the derived key, the call returns the error and no file key,      *)
(* without a second attempt; the connection is as it was and later         *)
(* stanzas can be unwrapped on it.                                         *)
(***************************************************************************)
\* the stanza was not sealed for the connection's key
AeadFails(line) ==
    \A fk \in FileKeys, e \in EphemeralScalars, d \in 1..MaxScalar :
        result.pk = Recipients[d] => line # Wraps[fk][d][e]

C14_OneDecryptPerUnwrap ==
    /\ Len(DecryptCalls) = Len(unwraps)
    /\ \A k \in 1..Len(unwraps) :
          /\ DecryptCalls[k].slot = result.slot
          /\ DecryptCalls[k].point = decompress(unwraps[k].line.epk)
          /\ DecryptCalls[k].ret = "Error" => unwraps[k].ret = Err
          /\ AeadFails(unwraps[k].line) => unwraps[k].ret = Err
          /\ unwraps[k].ret = Err \/ unwraps[k].ret.kind = "Ok"
    /\ unwraps # <<>> =>
          /\ pc = "done" /\ yubikey = TRUE
          /\ result = Connection(TRUE, pk, self.slot, self.tag)
    /\ unwrapped # NoResult => unwrapped = unwraps[Len(unwraps)].ret

\* decrypt_data failed for the first stanza and the next one was unwrapped
C14_Witness ==
    /\ Len(unwraps) = 2
    /\ DecryptCalls[1].ret = "Error" /\ unwraps[1].ret = Err
    /\ unwraps[2].ret.kind = "Ok"

\* the ciphertext of a stanza of the same tag, sealed for another key, did not
\* open, and the next stanza was unwrapped
C14_WitnessAead ==
    /\ Len(unwraps) = 2
    /\ DecryptCalls[1].ret = "Ok" /\ AeadFails(unwraps[1].line) /\ unwraps[1].ret = Err
    /\ unwraps[2].ret.kind = "Ok"

(***************************************************************************)
(* yubikey::open and wait_for_readers (src/yubikey.rs), stepping while the *)
(* user plugs and unplugs devices.  Every readers.iter() lists the readers *)
(* connected at that moment.                                               *)
(***************************************************************************)
\* the user plugs or unplugs a device at most MaxPlugEvents times during one open
MaxPlugEvents == 2

\* the serials of the devices the user owns
Serials == {42, 77}

\* a serial no device has
AbsentSerial == Max(Serials) + 1

Some(v) == [kind |-> "Some", value |-> v]

\* Err(Error::..) of the crate's error type
Error(name) == [kind |-> "Err", error |-> name]

\* Ok(yubikey): the open device
OkYubiKey(serial) == [kind |-> "Ok", serial |-> serial]

\* the command starts: open(serial) is called with the --serial option
StartOpen ==
    /\ openPc = "idle"
    /\ \E arg \in {None, Some(42), Some(AbsentSerial)}, connected \in SUBSET Serials :
          serialArg' = arg /\ plugged' = connected
    /\ openPc' = "first_look"
    /\ UNCHANGED <<readersIter, openNow, openStart, openLog, openResult, plugEvents,
                   stubVars, stanzaVars, connectVars, unwrapVars, buildVars, slotVars>>

\* if Readers::open()?.iter()?.len() == 0 { eprintln!("Please insert ..") },
\* then wait_for_readers takes its start time
FirstLook ==
    /\ openPc = "first_look"
    /\ \/ /\ openResult' = Error("PcSc") /\ openPc' = "done"
          /\ UNCHANGED <<openLog, openStart>>
       \/ /\ openLog' = IF plugged = {} THEN Append(openLog, "insert-message") ELSE openLog
          /\ openStart' = openNow
          /\ openPc' = "look"
          /\ UNCHANGED openResult
    /\ UNCHANGED <<serialArg, plugged, readersIter, openNow, plugEvents,
                   stubVars, stanzaVars, connectVars, unwrapVars, buildVars, slotVars>>

\* wait_for_readers, top of the loop: Readers::open()?, then
\* if readers.iter()?.len() > 0 { break Ok(readers) }
Look ==
    /\ openPc = "look"
    /\ \/ openResult' = Error("PcSc") /\ openPc' = "done"
       \/ plugged # {} /\ openPc' = "iter" /\ UNCHANGED openResult
       \/ plugged = {} /\ openPc' = "elapsed" /\ UNCHANGED openResult
    /\ UNCHANGED <<serialArg, plugged, readersIter, openNow, openStart, openLog, plugEvents,
                   stubVars, stanzaVars, connectVars, unwrapVars, buildVars, slotVars>>

\* wait_for_readers, end of the loop: Err(Error::TimedOut) or sleep(ONE_SECOND)
WaitElapsed ==
    /\ openPc = "elapsed"
    /\ \/ /\ openNow - openStart >= FIFTEEN_SECONDS
          /\ openResult' = Error("TimedOut") /\ openPc' = "done"
          /\ UNCHANGED openNow
       \/ /\ ~(openNow - openStart >= FIFTEEN_SECONDS)
          /\ openNow' = openNow + ONE_SECOND /\ openPc' = "look"
          /\ UNCHANGED openResult
    /\ UNCHANGED <<serialArg, plugged, readersIter, openStart, openLog, plugEvents,
                   stubVars, stanzaVars, connectVars, unwrapVars, buildVars, slotVars>>

\* let mut readers_iter = readers.iter()?: the readers are listed again
Iter ==
    /\ openPc = "iter"
    /\ \/ openResult' = Error("PcSc") /\ openPc' = "done" /\ UNCHANGED readersIter
       \/ readersIter' = plugged /\ openPc' = "match" /\ UNCHANGED openResult
    /\ UNCHANGED <<serialArg, plugged, openNow, openStart, openLog, plugEvents,
                   stubVars, stanzaVars, connectVars, unwrapVars, buildVars, slotVars>>

\* reader.open(): the device of a listed reader is opened if it is still there
ReaderOpen(serial) ==
    IF serial \in plugged THEN {OkYubiKey(serial), Error("PcSc")} ELSE {Error("PcSc")}

\* match (readers_iter.len(), serial) { .. }
Match ==
    /\ openPc = "match"
    /\ LET n == Cardinality(readersIter)
       IN  \/ n = 0 /\ openResult' = Panic
           \/ /\ n = 1 /\ serialArg = None
              /\ \E r \in readersIter : openResult' \in ReaderOpen(r)
           \/ /\ n = 1 /\ serialArg # None
              /\ \E r \in readersIter : \E opened \in ReaderOpen(r) :
                    openResult' = IF opened.kind = "Ok" /\ opened.serial # serialArg.value
                                  THEN Error("NoMatchingSerial")
                                  ELSE opened
           \/ /\ n > 1 /\ serialArg # None
              /\ \/ /\ serialArg.value \in readersIter \cap plugged
                    /\ openResult' \in ReaderOpen(serialArg.value)
                 \/ openResult' = Error("NoMatchingSerial")
           \/ n > 1 /\ serialArg = None /\ openResult' = Error("MultipleYubiKeys")
    /\ openPc' = "done"
    /\ UNCHANGED <<serialArg, plugged, readersIter, openNow, openStart, openLog, plugEvents,
                   stubVars, stanzaVars, connectVars, unwrapVars, buildVars, slotVars>>

\* the user plugs a device in while open runs
Plug ==
    /\ openPc \notin {"idle", "done"} /\ plugEvents < MaxPlugEvents
    /\ \E d \in Serials \ plugged : plugged' = plugged \cup {d}
    /\ plugEvents' = plugEvents + 1
    /\ UNCHANGED <<openPc, serialArg, readersIter, openNow, openStart, openLog, openResult,
                   stubVars, stanzaVars, connectVars, unwrapVars, buildVars, slotVars>>

\* the user pulls a device out while open runs
Unplug ==
    /\ openPc \notin {"idle", "done"} /\ plugEvents < MaxPlugEvents
    /\ \E d \in plugged : plugged' = plugged \ {d}
    /\ plugEvents' = plugEvents + 1
    /\ UNCHANGED <<openPc, serialArg, readersIter, openNow, openStart, openLog, openResult,
                   stubVars, stanzaVars, connectVars, unwrapVars, buildVars, slotVars>>

InitOpen == StubIdle /\ StanzaIdle /\ ConnectIdle /\ UnwrapIdle /\ CliIdle

NextOpen ==
    \/ StartOpen \/ FirstLook \/ Look \/ WaitElapsed \/ Iter \/ Match
    \/ Plug \/ Unplug

SpecOpen == InitOpen /\ [][NextOpen]_vars

(***************************************************************************)
(* C16: open never reaches the arm (0, _) => unreachable!() of its match:  *)
(* the number of readers the match looks at is at least one, also when a   *)
(* device is plugged or unplugged between the listing wait_for_readers     *)
(* made and the listing open makes afterwards.                             *)
(***************************************************************************)
C16_UnreachableNotReached ==
    /\ openPc = "match" => Cardinality(readersIter) >= 1
    /\ openResult # Panic

\* with no device plugged or unplugged while open runs the arm is not reached
C16_NoRemovalNoPanic ==
    (openPc = "match" /\ Cardinality(readersIter) = 0) => plugEvents > 0

(***************************************************************************)
(* IdentityBuilder::build (src/builder.rs) against the slots of one        *)
(* device.  `keys` is what Key::list reports; the certificate written at   *)
(* the end of build is what makes a slot show up there.                    *)
(***************************************************************************)
\* const USABLE_SLOTS: [RetiredSlotId; 20]
USABLE_SLOTS ==
    << 1, 2, 3, 4, 5, 6, 7, 8, 9, 10, 11, 12, 13, 14, 15, 16, 17, 18, 19, 20 >>

\* the serial of the device build works on
BUILD_SERIAL == Max(Serials)

SlotIsNotEmpty(slot) == [kind |-> "Err", error |-> "SlotIsNotEmpty", slot |-> slot]

NoEmptySlots(serial) == [kind |-> "Err", error |-> "NoEmptySlots", serial |-> serial]

\* the sets of slots the device may hold keys in when build starts
KeySamples ==
    { {}, {1}, {2}, {7}, {20}, {1, 2}, {1, 2, 3}, 1..19, 1..20, (1..20) \ {7} }

\* the slots --slot may name
SlotSamples == {1, 2, 7, 20}

\* Key::list(yubikey): Ok with the slots that hold a key, or an error
ListCall(ret, listed) == [call |-> "Key::list", ret |-> ret, keys |-> listed]

SlotCall(name, slot) == [call |-> name, slot |-> slot]

\* USABLE_SLOTS.iter().find(|slot| no key of `listed` is in slot): an index, 0 for none
first_empty_slot(listed) ==
    LET empty == { i \in 1..Len(USABLE_SLOTS) : USABLE_SLOTS[i] \notin listed }
    IN  IF empty = {} THEN 0 ELSE CHOOSE i \in empty : \A j \in empty : i <= j

\* IdentityBuilder::new(slot).force(force).build(&mut yubikey) is called
NewBuilder ==
    /\ buildPc = "idle"
    /\ \E slot \in {None} \cup { Some(n) : n \in SlotSamples }, force \in BOOLEAN :
          builder' = [slot |-> slot, force |-> force]
    /\ \E held \in KeySamples : keys' = held
    /\ buildPc' = "select"
    /\ UNCHANGED <<chosen, buildLog, buildResult,
                   stubVars, stanzaVars, connectVars, unwrapVars, openVars, slotVars>>

\* SelectSlot that takes the requested slot without looking at the device
SelectSlot_unchecked ==
    /\ buildPc = "select"
    /\ \/ /\ builder.slot # None
          /\ chosen' = builder.slot.value /\ buildPc' = "manage"
          /\ UNCHANGED <<buildLog, buildResult>>
       \/ /\ builder.slot = None
          /\ \/ /\ buildLog' = Append(buildLog, ListCall("Error", {}))
                /\ buildResult' = Error("PcSc") /\ buildPc' = "done"
                /\ UNCHANGED chosen
             \/ /\ buildLog' = Append(buildLog, ListCall("Ok", keys))
                /\ LET i == first_empty_slot(keys)
                   IN  IF i = 0
                       THEN /\ buildResult' = NoEmptySlots(BUILD_SERIAL)
                            /\ buildPc' = "done" /\ UNCHANGED chosen
                       ELSE /\ chosen' = USABLE_SLOTS[i] /\ buildPc' = "manage"
                            /\ UNCHANGED buildResult
    /\ UNCHANGED <<builder, keys,
                   stubVars, stanzaVars, connectVars, unwrapVars, openVars, slotVars>>

\* let slot = match self.slot { Some(slot) => .., None => .. }
SelectSlot ==
    /\ buildPc = "select"
    /\ \/ /\ builder.slot # None /\ builder.force
          /\ chosen' = builder.slot.value /\ buildPc' = "manage"
          /\ UNCHANGED <<buildLog, buildResult>>
       \/ /\ builder.slot # None /\ ~builder.force
          /\ \/ /\ buildLog' = Append(buildLog, ListCall("Error", {}))
                /\ buildResult' = Error("PcSc") /\ buildPc' = "done"
                /\ UNCHANGED chosen
             \/ /\ buildLog' = Append(buildLog, ListCall("Ok", keys))
                /\ IF builder.slot.value \in keys
                   THEN /\ buildResult' = SlotIsNotEmpty(builder.slot.value)
                        /\ buildPc' = "done" /\ UNCHANGED chosen
                   ELSE /\ chosen' = builder.slot.value /\ buildPc' = "manage"
                        /\ UNCHANGED buildResult
       \/ /\ builder.slot = None
          /\ \/ /\ buildLog' = Append(buildLog, ListCall("Error", {}))
                /\ buildResult' = Error("PcSc") /\ buildPc' = "done"
                /\ UNCHANGED chosen
             \/ /\ buildLog' = Append(buildLog, ListCall("Ok", keys))
                /\ LET i == first_empty_slot(keys)
                   IN  IF i = 0
                       THEN /\ buildResult' = NoEmptySlots(BUILD_SERIAL)
                            /\ buildPc' = "done" /\ UNCHANGED chosen
                       ELSE /\ chosen' = USABLE_SLOTS[i] /\ buildPc' = "manage"
                            /\ UNCHANGED buildResult
    /\ UNCHANGED <<builder, keys,
                   stubVars, stanzaVars, connectVars, unwrapVars, openVars, slotVars>>

\* yubikey::manage(yubikey)?: the PIN prompt, verify_pin, the management key
Manage ==
    /\ buildPc = "manage"
    /\ \E outcome \in {"Ok", "Error"} :
        /\ buildLog' = Append(buildLog, [call |-> "manage", ret |-> outcome])
        /\ \/ outcome = "Ok" /\ buildPc' = "generate" /\ UNCHANGED buildResult
           \/ outcome = "Error" /\ buildPc' = "done" /\ buildResult' = Error("Manage")
    /\ UNCHANGED <<builder, keys, chosen,
                   stubVars, stanzaVars, connectVars, unwrapVars, openVars, slotVars>>

\* yubikey_generate(yubikey, SlotId::Retired(slot), AlgorithmId::EccP256, ..)?
Generate ==
    /\ buildPc = "generate"
    /\ buildLog' = Append(buildLog, SlotCall("generate", chosen))
    /\ \/ \E d \in 1..MaxScalar :
            /\ buildResult' = [kind |-> "Generated", recipient |-> RecipientOf(d)]
            /\ buildPc' = "certify"
       \/ buildResult' = Error("Generate") /\ buildPc' = "done"
    /\ UNCHANGED <<builder, keys, chosen,
                   stubVars, stanzaVars, connectVars, unwrapVars, openVars, slotVars>>

\* Certificate::generate_self_signed(yubikey, SlotId::Retired(slot), ..)?, then
\* Ok((Stub::new(yubikey.serial(), slot, &recipient), recipient, created))
Certify ==
    /\ buildPc = "certify"
    /\ buildLog' = Append(buildLog, SlotCall("generate_self_signed", chosen))
    /\ \/ /\ keys' = keys \cup {chosen}
          /\ buildResult' = [kind |-> "Ok",
                             stub |-> Stub_new(BUILD_SERIAL, chosen, buildResult.recipient),
                             recipient |-> buildResult.recipient]
       \/ buildResult' = Error("Certificate") /\ UNCHANGED keys
    /\ buildPc' = "done"
    /\ UNCHANGED <<builder, chosen,
                   stubVars, stanzaVars, connectVars, unwrapVars, openVars, slotVars>>

InitBuild == StubIdle /\ StanzaIdle /\ ConnectIdle /\ UnwrapIdle /\ CliIdle

NextBuild == NewBuilder \/ SelectSlot \/ Manage \/ Generate \/ Certify

SpecBuild == InitBuild /\ [][NextBuild]_vars

\* the positions of the calls of one kind in build's log
BuildCalls(name) == { i \in 1..Len(buildLog) : buildLog[i].call = name }

\* Key::list was called and returned the slots that hold a key
ListedOk == BuildCalls("Key::list") = {1} /\ buildLog[1].ret = "Ok"

\* what Key::list returned to build
Listed == buildLog[1].keys

(***************************************************************************)
(* C17: build generates a key only into a slot Key::list reported no key   *)
(* in, unless force is set.  With a requested slot that holds a key and    *)
(* force not set it returns SlotIsNotEmpty having made no call but         *)
(* Key::list: no PIN prompt, no generation, the device as it was.  With no *)
(* requested slot it selects the first slot of USABLE_SLOTS that holds no  *)
(* key, and returns NoEmptySlots, with no call but Key::list, when all     *)
(* twenty hold one.                                                        *)
(***************************************************************************)
C17_NoGenerateIntoOccupied ==
    /\ Cardinality(BuildCalls("generate")) <= 1
    /\ \A g \in BuildCalls("generate") :
          /\ buildLog[g].slot = chosen
          /\ \E p \in BuildCalls("manage") : p < g /\ buildLog[p].ret = "Ok"
          /\ \/ builder.slot # None /\ builder.force
             \/ ListedOk /\ buildLog[g].slot \notin Listed
    /\ (buildPc # "idle" /\ builder.slot # None /\ ~builder.force /\ ListedOk
          /\ builder.slot.value \in Listed) =>
             /\ buildPc = "done"
             /\ buildResult = SlotIsNotEmpty(builder.slot.value)
             /\ buildLog = << ListCall("Ok", keys) >>
             /\ chosen = 0
    /\ (buildPc # "idle" /\ builder.slot = None /\ ListedOk) =>
          IF \A i \in 1..Len(USABLE_SLOTS) : USABLE_SLOTS[i] \in Listed
          THEN /\ buildPc = "done"
               /\ buildResult = NoEmptySlots(BUILD_SERIAL)
               /\ buildLog = << ListCall("Ok", keys) >>
               /\ chosen = 0
          ELSE /\ chosen \notin Listed
               /\ \E i \in 1..Len(USABLE_SLOTS) :
                     /\ USABLE_SLOTS[i] = chosen
                     /\ \A j \in 1..(i - 1) : USABLE_SLOTS[j] \in Listed

\* slot 7 holds a key, --slot 7 without --force: SlotIsNotEmpty and nothing done
C17_Witness ==
    /\ buildPc = "done" /\ builder = [slot |-> Some(7), force |-> FALSE]
    /\ keys = 1..19
    /\ buildResult = SlotIsNotEmpty(7)
    /\ BuildCalls("manage") = {} /\ BuildCalls("generate") = {}

\* no --slot, every slot but R7 holds a key: the key is generated into R7
C17_WitnessFirstEmpty ==
    /\ buildPc = "done" /\ builder.slot = None /\ ListedOk /\ Listed = (1..20) \ {7}
    /\ buildResult.kind = "Ok" /\ buildResult.stub.slot = 7 /\ keys = 1..20

\* no --slot and all twenty slots hold a key
C17_WitnessNoEmptySlots ==
    /\ buildPc = "done" /\ builder.slot = None /\ keys = 1..20
    /\ buildResult = NoEmptySlots(BUILD_SERIAL)

\* --force generates into a slot that holds a key
C17_WitnessForce ==
    /\ buildPc = "done" /\ builder = [slot |-> Some(7), force |-> TRUE]
    /\ 7 \in keys /\ BuildCalls("Key::list") = {}
    /\ buildResult.kind = "Ok" /\ buildResult.stub.slot = 7

(***************************************************************************)
(* The --slot option of generate and identity, and the slot number list    *)
(* prints (src/main.rs).                                                   *)
(***************************************************************************)
\* usize::MAX, cut to the largest of TLC's integers; all that is used of it
\* is that it is no index of USABLE_SLOTS
USIZE_MAX == 2147483647

InvalidSlot(slot) == [kind |-> "Err", error |-> "InvalidSlot", slot |-> slot]

\* the values of a u8
U8 == 0..255

\* a - b on usize: with overflow checks (the dev profile) an underflow panics,
\* without them (the release profile) it wraps
usize_sub(a, b, overflow_checks) ==
    IF a >= b THEN [kind |-> "Ok", value |-> a - b]
    ELSE IF overflow_checks THEN Panic
    ELSE [kind |-> "Ok", value |-> USIZE_MAX - (b - a) + 1]

\* USABLE_SLOTS.get(index): index counts from 0
USABLE_SLOTS_get(index) ==
    IF index < Len(USABLE_SLOTS) THEN Some(USABLE_SLOTS[index + 1]) ELSE None

\* USABLE_SLOTS.get(slot as usize - 1).cloned().ok_or(Error::InvalidSlot(slot))
usable_slot(slot, overflow_checks) ==
    LET index == usize_sub(slot, 1, overflow_checks)
    IN  IF index = Panic THEN Panic
        ELSE LET found == USABLE_SLOTS_get(index.value)
             IN  IF found = None THEN InvalidSlot(slot) ELSE found

\* opts.slot.map(|slot| ..).transpose()?
slot_option(arg, overflow_checks) ==
    IF arg = None THEN None ELSE usable_slot(arg.value, overflow_checks)

\* USABLE_SLOTS.iter().position(|s| s == &slot).unwrap() + 1
list_number(slot) ==
    LET position == CHOOSE i \in 0..(Len(USABLE_SLOTS) - 1) : USABLE_SLOTS[i + 1] = slot
    IN  position + 1

\* the command line is parsed: --slot is absent or any u8
ParseSlot ==
    /\ slotPc = "idle"
    /\ \E arg \in {None} \cup { Some(n) : n \in U8 } : slotArg' = arg
    /\ slotPc' = "parsed"
    /\ UNCHANGED <<selected,
                   stubVars, stanzaVars, connectVars, unwrapVars, openVars, buildVars>>

\* generate(opts): let slot = opts.slot.map(..).transpose()?
GenerateSlot ==
    /\ slotPc = "parsed"
    /\ \E overflow_checks \in BOOLEAN : selected' = slot_option(slotArg, overflow_checks)
    /\ slotPc' = "generate"
    /\ UNCHANGED <<slotArg,
                   stubVars, stanzaVars, connectVars, unwrapVars, openVars, buildVars>>

\* identity(opts): let slot = opts.slot.map(..).transpose()?
IdentitySlot ==
    /\ slotPc = "parsed"
    /\ \E overflow_checks \in BOOLEAN : selected' = slot_option(slotArg, overflow_checks)
    /\ slotPc' = "identity"
    /\ UNCHANGED <<slotArg,
                   stubVars, stanzaVars, connectVars, unwrapVars, openVars, buildVars>>

\* list(..) prints the slot of the key generate has put there
ListSlot ==
    /\ slotPc = "generate" /\ selected.kind = "Some"
    /\ selected' = [kind |-> "Listed", slot |-> selected.value,
                    number |-> list_number(selected.value)]
    /\ slotPc' = "listed"
    /\ UNCHANGED <<slotArg,
                   stubVars, stanzaVars, connectVars, unwrapVars, openVars, buildVars>>

InitSlot == StubIdle /\ StanzaIdle /\ ConnectIdle /\ UnwrapIdle /\ CliIdle

NextSlot == ParseSlot \/ GenerateSlot \/ IdentitySlot \/ ListSlot

SpecSlot == InitSlot /\ [][NextSlot]_vars

(***************************************************************************)
(* C18: --slot n with n in 1..=20 selects USABLE_SLOTS[n-1], whose number  *)
(* in the output of list is n again; every other u8, 0 included, gives     *)
(* Err(InvalidSlot(n)): no panic and no slot selected.                     *)
(***************************************************************************)
C18_SlotOption ==
    /\ (slotPc \in {"generate", "identity"} /\ slotArg # None) =>
          IF slotArg.value \in 1..20
          THEN selected = Some(USABLE_SLOTS[slotArg.value])
          ELSE selected = InvalidSlot(slotArg.value)
    /\ slotPc = "listed" =>
          /\ selected.number = slotArg.value
          /\ selected.slot = USABLE_SLOTS[slotArg.value]

\* the claim holds for every value but 0, and for 0 where the subtraction wraps
C18_ExceptZero ==
    /\ (slotPc \in {"generate", "identity"} /\ slotArg # None) =>
          IF slotArg.value \in 1..20
          THEN selected = Some(USABLE_SLOTS[slotArg.value])
          ELSE \/ selected = InvalidSlot(slotArg.value)
               \/ slotArg.value = 0 /\ selected = Panic
    /\ slotPc = "listed" =>
          /\ selected.number = slotArg.value
          /\ selected.slot = USABLE_SLOTS[slotArg.value]

====
